---- MODULE Spec2Model ----
(***************************************************************************)
(* Model of transcriber.py: the subtitle coalescer (process_subtitles),    *)
(* the per-utterance translation and resegmentation (get_translation),    *)
(* the timeout computation (timeout_for_sub) and the controller (main).   *)
(*                                                                         *)
(* Encodings.                                                              *)
(*  - A datetime.time is a record [hour, minute, second, microsecond].     *)
(*  - A float number of seconds and a datetime.timedelta are integers      *)
(*    counting microseconds.  All times of the inputs lie in the first     *)
(*    hour of one day, and both datetime.today() calls of get_timedelta    *)
(*    fall on the same day.                                                *)
(*  - A translated text (a Python str) is a sequence of runs               *)
(*    [ch |-> c, n |-> k], k >= 1 copies of the character c; " " is the    *)
(*    whitespace character.  Two run sequences denote the same string iff  *)
(*    their Canon forms are equal.                                         *)
(*  - A line of a raw caption is a sequence of word tokens, standing for   *)
(*    the words joined by single spaces ("(Ana) Hi" is <<"(Ana)", "Hi">>). *)
(***************************************************************************)
EXTENDS Integers, Sequences, FiniteSets, TLC

VARIABLES
    subs,             \* the raw captions parsed from the extracted .srt file
    k,                \* process_subtitles: position of the next raw caption
    cur_sub,          \* process_subtitles: 0 for None, else the position in
                      \*   final_subs of the object cur_sub refers to
    final_subs,       \* process_subtitles: final_subs, then main's proc_subs
    j,                \* main: number of utterances the for loop has finished
    translated_subs,  \* main: translated_subs
    last,             \* the most recent get_translation call and its outcome
    out_subs,         \* the content of the written subtitle file
    written,          \* whether srt.write has written the subtitle file
    pc                \* "process", "translate", "done" or "aborted"

vars == <<subs, k, cur_sub, final_subs, j, translated_subs, last, out_subs, written, pc>>

----------------------------------------------------------------------------
(* Program constants *)

TIMEOUT_RATIO == 2
MAX_TIMEOUT == 30
MAX_CAPTION_LENGTH == 900
MICROS == 1000000

(* Bounds of the model *)

MaxCaptions == 3     \* raw captions per input, coalescer specification
MaxRuns == 5         \* runs per translated text, resegmenter specification
MainCaptions == 3    \* raw captions per input, whole-program specification
MainRuns == 3        \* runs per translated text, whole-program specification

----------------------------------------------------------------------------
(* Times *)

Time(h, m, s, us) == [hour |-> h, minute |-> m, second |-> s, microsecond |-> us]

\* datetime_to_seconds, in microseconds
datetime_to_seconds(dt) ==
    (dt.hour * 3600 + dt.minute * 60 + dt.second) * MICROS + dt.microsecond

timeout_for_subNoCap(sub) ==
    (datetime_to_seconds(sub.end) - datetime_to_seconds(sub.start)) * TIMEOUT_RATIO

timeout_for_sub(sub) ==
    LET scaled == (datetime_to_seconds(sub.end) - datetime_to_seconds(sub.start)) * TIMEOUT_RATIO
    IN  IF MAX_TIMEOUT * MICROS <= scaled THEN MAX_TIMEOUT * MICROS ELSE scaled

\* datetime.combine(datetime.today(), t), as microseconds since today's midnight
combine(t) == (t.hour * 3600 + t.minute * 60 + t.second) * MICROS + t.microsecond

\* datetime.time() of the instant n microseconds after today's midnight
timeOf(n) ==
    LET secs == n \div MICROS
    IN  Time((secs \div 3600) % 24, (secs % 3600) \div 60, secs % 60, n % MICROS)

get_timedelta(t1, t2) == combine(t2) - combine(t1)

add_timedelta(t, delta) == timeOf(combine(t) + delta)

\* timedelta / int: the quotient rounded to a whole microsecond, ties to even
divide_timedelta(a, b) ==
    LET q == a \div b
        r == a % b
    IN  IF 2 * r > b \/ (2 * r = b /\ q % 2 = 1) THEN q + 1 ELSE q

----------------------------------------------------------------------------
(* Strings as run sequences *)

SP == [ch |-> " ", n |-> 1]

RECURSIVE StrLen(_)
StrLen(s) == IF s = <<>> THEN 0 ELSE Head(s).n + StrLen(Tail(s))

RECURSIVE Canon(_)
Canon(s) ==
    IF Len(s) <= 1 THEN s
    ELSE LET rest == Canon(Tail(s))
         IN  IF Head(s).ch = Head(rest).ch
             THEN <<[ch |-> Head(s).ch, n |-> Head(s).n + Head(rest).n]>> \o Tail(rest)
             ELSE <<Head(s)>> \o rest

\* str.split(): the maximal whitespace-free substrings, in order
RECURSIVE SplitFrom(_, _, _, _)
SplitFrom(s, i, word, acc) ==
    LET closed == IF word = <<>> THEN acc ELSE Append(acc, word)
    IN  IF i > Len(s) THEN closed
        ELSE IF s[i].ch = " " THEN SplitFrom(s, i + 1, <<>>, closed)
        ELSE SplitFrom(s, i + 1, Append(word, s[i]), acc)

split(s) == SplitFrom(s, 1, <<>>, <<>>)

\* ceil(a / b) for a >= 0, b > 0
ceil_div(a, b) == (a + b - 1) \div b

----------------------------------------------------------------------------
(* process_subtitles *)

\* the grouping test of the loop: the first lines are the same string
same_keyMarker(cur, sub) == Head(cur.lines[1]) = Head(sub.lines[1])

same_key(cur, sub) == cur.lines[1] = sub.lines[1]

\* the else branch: cur_sub.end = sub.end; cur_sub.lines += sub.lines[1:]
extendKeepEnd(cur, sub) == [cur EXCEPT !.lines = @ \o Tail(sub.lines)]

extend(cur, sub) == [cur EXCEPT !.end = sub.end, !.lines = @ \o Tail(sub.lines)]

\* one iteration of "for sub in subs"
ProcessStep ==
    /\ pc = "process"
    /\ k <= Len(subs)
    /\ LET sub == subs[k]
       IN  IF cur_sub = 0 \/ ~same_key(final_subs[cur_sub], sub)
           THEN /\ final_subs' = Append(final_subs, [sub EXCEPT !.index = Len(final_subs) + 1])
                /\ cur_sub' = Len(final_subs) + 1
           ELSE /\ final_subs' = [final_subs EXCEPT ![cur_sub] = extend(@, sub)]
                /\ cur_sub' = cur_sub
    /\ k' = k + 1
    /\ UNCHANGED <<subs, j, translated_subs, last, out_subs, written, pc>>

\* the loop is exhausted: return final_subs; main starts its own loop
ProcessReturn ==
    /\ pc = "process"
    /\ k > Len(subs)
    /\ pc' = "translate"
    /\ j' = 0
    /\ translated_subs' = <<>>
    /\ UNCHANGED <<subs, k, cur_sub, final_subs, last, out_subs, written>>

----------------------------------------------------------------------------
(* get_translation *)

speaker(sub) == sub.lines[1]

caption_indexLocal(num_so_far, i) == 1 + i

caption_index(num_so_far, i) == num_so_far + 1 + i

\* the inner while loop: pop words while the chunk stays within chunk_size
RECURSIVE pack_words(_, _, _)
pack_words(subtext, tr_words, chunk_size) ==
    IF /\ tr_words # <<>>
       /\ StrLen(subtext) + 1 + StrLen(Head(tr_words)) < chunk_size + 1
    THEN pack_words(subtext \o <<SP>> \o Head(tr_words), Tail(tr_words), chunk_size)
    ELSE [subtext |-> subtext, tr_words |-> tr_words]

\* "for i in range(num_chunks)", from iteration i on
RECURSIVE chunk_loop(_, _, _, _, _, _, _, _)
chunk_loop(sub, num_so_far, num_chunks, chunk_size, timedelta, i, tr_words, subtitles) ==
    IF i >= num_chunks
    THEN [raised |-> "none", subtitles |-> subtitles, tr_words |-> tr_words]
    ELSE IF tr_words = <<>>
    THEN [raised |-> "IndexError", subtitles |-> subtitles, tr_words |-> tr_words]
    ELSE LET p == pack_words(Head(tr_words), Tail(tr_words), chunk_size)
             c == [index |-> caption_index(num_so_far, i),
                   start |-> add_timedelta(sub.start, i * timedelta),
                   end   |-> add_timedelta(sub.end, (-1) * (num_chunks - i - 1) * timedelta),
                   lines |-> <<speaker(sub), p.subtext>>]
         IN  chunk_loop(sub, num_so_far, num_chunks, chunk_size, timedelta,
                        i + 1, p.tr_words, Append(subtitles, c))

\* lines 111-126, given the text tr the translation call returned
get_translation(sub, tr, num_so_far) ==
    LET num_chunks == ceil_div(StrLen(tr), MAX_CAPTION_LENGTH)
    IN  IF num_chunks = 0
        THEN [raised |-> "ZeroDivisionError", subtitles |-> <<>>, tr_words |-> <<>>]
        ELSE chunk_loop(sub, num_so_far, num_chunks,
                        ceil_div(StrLen(tr), num_chunks),
                        divide_timedelta(get_timedelta(sub.start, sub.end), num_chunks),
                        0, split(tr), <<>>)

NoText == <<[ch |-> "?", n |-> 0]>>

NoCall == [called |-> FALSE, sub |-> 0, tr |-> NoText, num_so_far |-> 0, timeout |-> 0,
           raised |-> "none", subtitles |-> <<>>, tr_words |-> <<>>]

Call(sub, tr, num_so_far, r) ==
    [called |-> TRUE, sub |-> sub, tr |-> tr, num_so_far |-> num_so_far,
     timeout |-> timeout_for_sub(sub),
     raised |-> r.raised, subtitles |-> r.subtitles, tr_words |-> r.tr_words]

----------------------------------------------------------------------------
(* main *)

\* the translation request raises (timeout or service error): the run ends
TranslationFails ==
    /\ pc = "translate"
    /\ j < Len(final_subs)
    /\ last' = [NoCall EXCEPT !.called = TRUE, !.sub = final_subs[j + 1],
                              !.num_so_far = Len(translated_subs),
                              !.timeout = timeout_for_sub(final_subs[j + 1]),
                              !.raised = "APIError"]
    /\ pc' = "aborted"
    /\ UNCHANGED <<subs, k, cur_sub, final_subs, j, translated_subs, out_subs, written>>

\* get_translation returns its captions: translated_subs.extend(...)
GetTranslationReturns(texts) ==
    /\ pc = "translate"
    /\ j < Len(final_subs)
    /\ \E tr \in texts :
         LET r == get_translation(final_subs[j + 1], tr, Len(translated_subs))
         IN  /\ r.raised = "none"
             /\ last' = Call(final_subs[j + 1], tr, Len(translated_subs), r)
             /\ translated_subs' = translated_subs \o r.subtitles
    /\ j' = j + 1
    /\ UNCHANGED <<subs, k, cur_sub, final_subs, out_subs, written, pc>>

\* get_translation raises while it builds the captions: the run ends
GetTranslationRaises(texts) ==
    /\ pc = "translate"
    /\ j < Len(final_subs)
    /\ \E tr \in texts :
         LET r == get_translation(final_subs[j + 1], tr, Len(translated_subs))
         IN  /\ r.raised # "none"
             /\ last' = Call(final_subs[j + 1], tr, Len(translated_subs), r)
    /\ pc' = "aborted"
    /\ UNCHANGED <<subs, k, cur_sub, final_subs, j, translated_subs, out_subs, written>>

\* after the loop: srt.write(subtitles=translated_subs, path=out_subs)
WriteOutput ==
    /\ pc = "translate"
    /\ j = Len(final_subs)
    /\ out_subs' = translated_subs
    /\ written' = TRUE
    /\ pc' = "done"
    /\ UNCHANGED <<subs, k, cur_sub, final_subs, j, translated_subs, last>>

----------------------------------------------------------------------------
(* Inputs *)

\* the lines of a raw caption: the speaker marker shares the first line with
\* the text, or has the first line to itself
CaptionLines ==
    { << <<"(Ana)", "Hi">> >>, << <<"(Ana)", "there">> >>, << <<"(Bob)", "Hey">> >>,
      << <<"(Ana)">>, <<"Hi">> >>, << <<"(Ana)">>, <<"there">> >>, << <<"(Bob)">>, <<"Hey">> >> }

MainLines == { << <<"(Ana)">>, <<"Hi">> >>, << <<"(Bob)">>, <<"Hey">> >> }

\* microseconds of silence before a caption, and the length of the i-th caption
GapChoices == {0, 1500000}

Dur(i) == IF i % 2 = 1 THEN 2000000 ELSE 3000000

RECURSIVE StartOf(_, _)
StartOf(gs, i) == IF i = 1 THEN gs[1] ELSE StartOf(gs, i - 1) + Dur(i - 1) + gs[i]

\* the ordered, non-overlapping caption sequences of length n
RawInputs(n, lineSet, gaps) ==
    { [i \in 1..n |-> [index |-> i,
                       start |-> timeOf(StartOf(gs, i)),
                       end   |-> timeOf(StartOf(gs, i) + Dur(i)),
                       lines |-> ls[i]]] :
      ls \in [1..n -> lineSet], gs \in [1..n -> gaps] }

\* single utterances of several lengths, below and above MAX_TIMEOUT / TIMEOUT_RATIO
Utterances ==
    { [index |-> 1, start |-> s, end |-> e, lines |-> << <<"(Ana)">>, <<"Hi">> >>] :
      s \in {Time(0, 0, 0, 0), Time(0, 0, 1, 500000)},
      e \in {Time(0, 0, 2, 0), Time(0, 0, 10, 0), Time(0, 0, 16, 500001), Time(0, 1, 0, 0)} }

Alphabet ==
    {SP, [ch |-> "a", n |-> 300], [ch |-> "b", n |-> 400], [ch |-> "d", n |-> 901]}

MainAlphabet == {SP, [ch |-> "w", n |-> 450]}

TextsOver(alphabet, n) == UNION { [1..m -> alphabet] : m \in 0..n }

Texts == TextsOver(Alphabet, MaxRuns)

MainTexts == TextsOver(MainAlphabet, MainRuns)

----------------------------------------------------------------------------
(* Specifications *)

InitFrom(input) ==
    /\ subs = input
    /\ k = 1
    /\ cur_sub = 0
    /\ final_subs = <<>>
    /\ j = 0
    /\ translated_subs = <<>>
    /\ last = NoCall
    /\ out_subs = <<>>
    /\ written = FALSE
    /\ pc = "process"

\* the whole program
Init == \E n \in 0..MainCaptions : \E input \in RawInputs(n, MainLines, {0}) : InitFrom(input)

Next ==
    \/ ProcessStep
    \/ ProcessReturn
    \/ TranslationFails
    \/ GetTranslationReturns(MainTexts)
    \/ GetTranslationRaises(MainTexts)
    \/ WriteOutput

Spec == Init /\ [][Next]_vars

\* process_subtitles on every caption sequence of the bounds
InitCoalesce ==
    \E n \in 0..MaxCaptions : \E input \in RawInputs(n, CaptionLines, GapChoices) : InitFrom(input)

NextCoalesce == ProcessStep \/ ProcessReturn

SpecCoalesce == InitCoalesce /\ [][NextCoalesce]_vars

\* main's loop over one utterance, the state process_subtitles leaves for a
\* single raw caption: get_translation on every text of the bounds
InitReseg ==
    \E u \in Utterances :
        /\ subs = <<u>>
        /\ k = 2
        /\ cur_sub = 1
        /\ final_subs = <<u>>
        /\ j = 0
        /\ translated_subs = <<>>
        /\ last = NoCall
        /\ out_subs = <<>>
        /\ written = FALSE
        /\ pc = "translate"

NextReseg ==
    \/ TranslationFails
    \/ GetTranslationReturns(Texts)
    \/ GetTranslationRaises(Texts)
    \/ WriteOutput

SpecReseg == InitReseg /\ [][NextReseg]_vars

----------------------------------------------------------------------------
(* Vocabulary of the properties *)

Returned == last.called /\ last.raised = "none"

GotText == last.called /\ last.raised # "APIError"

RECURSIVE JoinWords(_)
JoinWords(ws) ==
    IF ws = <<>> THEN <<>>
    ELSE IF Len(ws) = 1 THEN ws[1]
    ELSE ws[1] \o <<SP>> \o JoinWords(Tail(ws))

CaptionTexts(cs) == [i \in 1..Len(cs) |-> cs[i].lines[2]]

SameString(s, t) == Canon(s) = Canon(t)

SpansWhole(cs, sub) ==
    /\ cs[1].start = sub.start
    /\ cs[Len(cs)].end = sub.end

\* the captions that open a run of equal keys among the first n raw captions
RunStarts(n, key(_)) == { i \in 1..n : i = 1 \/ key(subs[i]) # key(subs[i - 1]) }

\* the first and last caption of the u-th run among the first n raw captions
RunFirst(n, u, key(_)) ==
    CHOOSE b \in RunStarts(n, key) : Cardinality({ x \in RunStarts(n, key) : x <= b }) = u

RunLast(n, u, key(_)) ==
    LET later == { x \in RunStarts(n, key) : x > RunFirst(n, u, key) }
    IN  IF later = {} THEN n ELSE (CHOOSE m \in later : \A x \in later : m <= x) - 1

RECURSIVE RestLines(_, _)
RestLines(b, e) == IF e <= b THEN <<>> ELSE RestLines(b, e - 1) \o Tail(subs[e].lines)

FirstLine(sub) == sub.lines[1]

Marker(sub) == Head(sub.lines[1])

Name(marker) ==
    CASE marker = "(Ana)" -> "Ana"
      [] marker = "(Bob)" -> "Bob"
      [] OTHER -> marker

RECURSIVE Dedup(_)
Dedup(s) ==
    IF Len(s) <= 1 THEN s
    ELSE IF s[1] = s[2] THEN Dedup(Tail(s))
    ELSE <<s[1]>> \o Dedup(Tail(s))

ScenarioInline ==
    << [index |-> 1, start |-> Time(0, 0, 0, 0), end |-> Time(0, 0, 2, 0),
        lines |-> << <<"(Ana)", "Hi">> >>],
       [index |-> 2, start |-> Time(0, 0, 2, 0), end |-> Time(0, 0, 5, 0),
        lines |-> << <<"(Ana)", "there">> >>],
       [index |-> 3, start |-> Time(0, 0, 5, 0), end |-> Time(0, 0, 7, 0),
        lines |-> << <<"(Bob)", "Hey">> >>] >>

ScenarioOwnLine ==
    << [index |-> 1, start |-> Time(0, 0, 0, 0), end |-> Time(0, 0, 2, 0),
        lines |-> << <<"(Ana)">>, <<"Hi">> >>],
       [index |-> 2, start |-> Time(0, 0, 2, 0), end |-> Time(0, 0, 5, 0),
        lines |-> << <<"(Ana)">>, <<"there">> >>],
       [index |-> 3, start |-> Time(0, 0, 5, 0), end |-> Time(0, 0, 7, 0),
        lines |-> << <<"(Bob)">>, <<"Hey">> >>] >>

----------------------------------------------------------------------------
(* Properties of get_translation, under SpecReseg *)

\* C1: when get_translation returns, the texts of its captions joined with
\* single spaces are the translated text with whitespace runs collapsed, and
\* no word is left in tr_words.
C1_TextConservation ==
    Returned =>
        /\ SameString(JoinWords(CaptionTexts(last.subtitles)), JoinWords(split(last.tr)))
        /\ last.tr_words = <<>>

\* C2: when get_translation returns, the first caption starts at the
\* utterance's start, the last ends at its end, and each caption ends exactly
\* where the next one starts.
C2_SpanCoverage ==
    Returned =>
        /\ Len(last.subtitles) >= 1
        /\ SpansWhole(last.subtitles, last.sub)
        /\ \A i \in 1..(Len(last.subtitles) - 1) :
               last.subtitles[i].end = last.subtitles[i + 1].start

\* C3: for the zero-length translated text get_translation does not fail and
\* returns exactly one caption, with empty text, spanning the utterance.
C3_EmptyTranslation ==
    (GotText /\ last.tr = <<>>) =>
        /\ last.raised = "none"
        /\ Len(last.subtitles) = 1
        /\ last.subtitles[1].lines[2] = <<>>
        /\ SpansWhole(last.subtitles, last.sub)

\* C4: for a translated text of at most MAX_CAPTION_LENGTH characters
\* get_translation returns exactly one caption, spanning the utterance and
\* carrying the text (its words joined with single spaces).
C4_ShortText ==
    (GotText /\ StrLen(last.tr) <= MAX_CAPTION_LENGTH) =>
        /\ last.raised = "none"
        /\ Len(last.subtitles) = 1
        /\ SpansWhole(last.subtitles, last.sub)
        /\ SameString(last.subtitles[1].lines[2], JoinWords(split(last.tr)))

\* C5: for a translated text that is one single word longer than
\* MAX_CAPTION_LENGTH get_translation returns exactly one caption, whose text
\* is that word.
C5_OversizedWord ==
    (/\ GotText
     /\ last.tr # <<>>
     /\ \A i \in 1..Len(last.tr) : last.tr[i].ch # " "
     /\ StrLen(last.tr) > MAX_CAPTION_LENGTH) =>
        /\ last.raised = "none"
        /\ Len(last.subtitles) = 1
        /\ SameString(last.subtitles[1].lines[2], last.tr)

\* C8: the timeout of every translation call is positive and at most
\* MAX_TIMEOUT, and it is the utterance's duration times TIMEOUT_RATIO whenever
\* that product is below MAX_TIMEOUT.
C8_TimeoutBound ==
    last.called =>
        LET duration == combine(last.sub.end) - combine(last.sub.start)
        IN  /\ 0 < last.timeout
            /\ last.timeout <= MAX_TIMEOUT * MICROS
            /\ (duration * TIMEOUT_RATIO < MAX_TIMEOUT * MICROS =>
                    last.timeout = duration * TIMEOUT_RATIO)

C8_Witness ==
    /\ last.called
    /\ (combine(last.sub.end) - combine(last.sub.start)) * TIMEOUT_RATIO > MAX_TIMEOUT * MICROS
    /\ last.timeout = MAX_TIMEOUT * MICROS

----------------------------------------------------------------------------
(* Properties of process_subtitles, under SpecCoalesce *)

\* C6: after any number of raw captions, the utterances are, one for one and
\* in order, the maximal runs of consecutive captions with the same first
\* line: the u-th has index u, the start of its run's first caption, the end
\* of its run's last caption and the run's lines; no utterance starts before
\* the previous one ends.
C6_CoalescerPartition ==
    LET n == k - 1
    IN  /\ Len(final_subs) = Cardinality(RunStarts(n, FirstLine))
        /\ \A u \in 1..Len(final_subs) :
               LET b == RunFirst(n, u, FirstLine)
                   e == RunLast(n, u, FirstLine)
               IN  /\ final_subs[u].index = u
                   /\ final_subs[u].start = subs[b].start
                   /\ final_subs[u].end = subs[e].end
                   /\ final_subs[u].lines = subs[b].lines \o RestLines(b, e)
        /\ \A u \in 1..(Len(final_subs) - 1) :
               /\ combine(final_subs[u].end) <= combine(final_subs[u + 1].start)
               /\ combine(final_subs[u].start) <= combine(final_subs[u + 1].start)

C6_Witness ==
    /\ pc = "translate"
    /\ Len(subs) = 3
    /\ Len(final_subs) = 2
    /\ final_subs[1].end = subs[2].end
    /\ combine(subs[1].end) < combine(subs[2].start)

----------------------------------------------------------------------------
(* Properties of main, under Spec *)

\* C9: the k-th caption of translated_subs (and of the written file) has
\* index k, and the captions are in utterance order: their speaker lines, with
\* repetitions collapsed, are the first lines of the utterances translated so
\* far, in order.
C9_GlobalIndex ==
    /\ \A i \in 1..Len(translated_subs) : translated_subs[i].index = i
    /\ \A i \in 1..Len(out_subs) : out_subs[i].index = i
    /\ pc # "process" =>
           Dedup([i \in 1..Len(translated_subs) |-> translated_subs[i].lines[1]])
               = [u \in 1..j |-> FirstLine(final_subs[u])]

C9_Witness ==
    /\ pc = "done"
    /\ j >= 2
    /\ Len(out_subs) > j
    /\ out_subs[Len(out_subs)].index = Len(out_subs)
    /\ out_subs[1].lines[1] = out_subs[2].lines[1]

\* C10: when the run ends on a failed translation after N >= 1 utterances were
\* translated, the captions of those N utterances are in the written output.
C10_IncrementalFlush ==
    (pc = "aborted" /\ j >= 1) => (written /\ out_subs = translated_subs)

====
